---------------------------- MODULE Spec2Model ----------------------------
(***************************************************************************)
(* Model of the Alpha Vantage stock scanner (src/Tradebot2.py): the        *)
(* indicator engine (compute_rsi, compute_macd, calculate_indicators), the *)
(* classifier (get_signals), the single-ticker load (update_stock_data),   *)
(* the market scan (scan_market) and the Qt signal/slot hand-over between  *)
(* the worker threads and the GUI thread.                                  *)
(*                                                                         *)
(* Prices are positive integers.  The float arithmetic of pandas is        *)
(* modelled exactly: a number is a fraction (p - n) / d whose three parts  *)
(* are arbitrary-precision naturals, so that no comparison is decided by   *)
(* a rounding of the model.                                                *)
(***************************************************************************)
EXTENDS Integers, Sequences, FiniteSets, TLC

-----------------------------------------------------------------------------
(* Arbitrary-precision naturals: little-endian digit sequences, base 10^4. *)

Base == 10000

RECURSIVE BNorm(_)
BNorm(a) == IF a = <<>> THEN <<>>
            ELSE IF a[Len(a)] = 0 THEN BNorm(SubSeq(a, 1, Len(a) - 1))
            ELSE a

RECURSIVE BOfInt(_)
BOfInt(k) == IF k = 0 THEN <<>> ELSE <<k % Base>> \o BOfInt(k \div Base)

RECURSIVE BAddC(_, _, _)
BAddC(a, b, c) ==
    IF a = <<>> /\ b = <<>> THEN (IF c = 0 THEN <<>> ELSE <<c>>)
    ELSE LET x == IF a = <<>> THEN 0 ELSE Head(a)
             y == IF b = <<>> THEN 0 ELSE Head(b)
             s == x + y + c
         IN  <<s % Base>> \o BAddC(IF a = <<>> THEN <<>> ELSE Tail(a),
                                   IF b = <<>> THEN <<>> ELSE Tail(b),
                                   s \div Base)

BAdd(a, b) == BAddC(a, b, 0)

RECURSIVE BSubC(_, _, _)
\* a - b for a >= b
BSubC(a, b, c) ==
    IF a = <<>> THEN <<>>
    ELSE LET y == IF b = <<>> THEN 0 ELSE Head(b)
             s == Head(a) - y - c
         IN  <<(s + Base) % Base>> \o BSubC(Tail(a), IF b = <<>> THEN <<>> ELSE Tail(b),
                                            IF s < 0 THEN 1 ELSE 0)

BSub(a, b) == BNorm(BSubC(a, b, 0))

RECURSIVE BMulSmallC(_, _, _)
BMulSmallC(a, k, c) ==
    IF a = <<>> THEN BOfInt(c)
    ELSE LET s == Head(a) * k + c
         IN  <<s % Base>> \o BMulSmallC(Tail(a), k, s \div Base)

\* a * k for a machine integer 0 <= k < 10^5
BMulSmall(a, k) == IF k = 0 THEN <<>> ELSE BMulSmallC(a, k, 0)

RECURSIVE BMul(_, _)
BMul(a, b) == IF b = <<>> \/ a = <<>> THEN <<>>
              ELSE BAdd(BMulSmall(a, Head(b)), <<0>> \o BMul(a, Tail(b)))


RECURSIVE BCmpN(_, _, _)
\* compares two normalised naturals of equal length from digit i downwards
BCmpN(a, b, i) == IF i = 0 THEN 0
                  ELSE IF a[i] < b[i] THEN -1
                  ELSE IF a[i] > b[i] THEN 1
                  ELSE BCmpN(a, b, i - 1)

BCmp(a, b) == LET x == BNorm(a)
                  y == BNorm(b)
              IN  IF Len(x) < Len(y) THEN -1
                  ELSE IF Len(x) > Len(y) THEN 1
                  ELSE BCmpN(x, y, Len(x))

-----------------------------------------------------------------------------
(* Floats: NaN, +inf, or the exact fraction (p - n) / d with d > 0.        *)

NaN == [k |-> "nan", p |-> <<>>, n |-> <<>>, d |-> <<>>]
Inf == [k |-> "inf", p |-> <<>>, n |-> <<>>, d |-> <<>>]

Q(p, n, d) == [k |-> "num", p |-> p, n |-> n, d |-> d]
Num(i) == IF i >= 0 THEN Q(BOfInt(i), <<>>, <<1>>) ELSE Q(<<>>, BOfInt(-i), <<1>>)


\* sign of x - y for two fractions: -1, 0 or 1
QCmp(x, y) == BCmp(BAdd(BMul(x.p, y.d), BMul(y.n, x.d)),
                   BAdd(BMul(y.p, x.d), BMul(x.n, y.d)))
QSign(x) == BCmp(x.p, x.n)

\* Python's x < y and x > y on floats: every comparison with NaN is False
Lt(x, y) == IF x = NaN \/ y = NaN THEN FALSE
            ELSE IF x = Inf THEN FALSE
            ELSE IF y = Inf THEN TRUE
            ELSE QCmp(x, y) < 0
Gt(x, y) == Lt(y, x)

FAdd(x, y) == IF x = NaN \/ y = NaN THEN NaN
              ELSE IF x = Inf \/ y = Inf THEN Inf
              ELSE Q(BAdd(BMul(x.p, y.d), BMul(y.p, x.d)),
                     BAdd(BMul(x.n, y.d), BMul(y.n, x.d)),
                     BMul(x.d, y.d))
FNeg(x) == IF x = NaN THEN NaN ELSE Q(x.n, x.p, x.d)
FSub(x, y) == IF x = NaN \/ y = NaN THEN NaN
              ELSE IF x = Inf THEN Inf
              ELSE FAdd(x, FNeg(y))
\* x / y for y >= 0 or y = +inf (the only divisions of the program)
FDiv(x, y) == IF x = NaN \/ y = NaN THEN NaN
              ELSE IF y = Inf THEN (IF x = Inf THEN NaN ELSE Num(0))
              ELSE IF QSign(y) = 0
                   THEN (IF x = Inf THEN Inf
                         ELSE IF QSign(x) = 0 THEN NaN
                         ELSE Inf)
              ELSE IF x = Inf THEN Inf
              ELSE IF QSign(y) > 0
                   THEN Q(BMul(x.p, y.d), BMul(x.n, y.d), BMul(x.d, BSub(y.p, y.n)))
              ELSE Q(BMul(x.n, y.d), BMul(x.p, y.d), BMul(x.d, BSub(y.n, y.p)))

-----------------------------------------------------------------------------
(* Signed integers as a pair of naturals (value p - n), and series whose   *)
(* row t (counted from 0) is the integer z[t] over base^t.  The recursive  *)
(* exponential mean divides by span + 1 at every row, so its row t is an   *)
(* integer over (span + 1)^t: this keeps every intermediate value exact.   *)

Z(p, n) == [p |-> p, n |-> n]
ZOfInt(i) == IF i >= 0 THEN Z(BOfInt(i), <<>>) ELSE Z(<<>>, BOfInt(-i))
ZNorm(x) == IF x.p = <<>> \/ x.n = <<>> THEN x
            ELSE IF BCmp(x.p, x.n) >= 0 THEN Z(BSub(x.p, x.n), <<>>)
            ELSE Z(<<>>, BSub(x.n, x.p))
ZAdd(x, y) == ZNorm(Z(BAdd(x.p, y.p), BAdd(x.n, y.n)))
ZSub(x, y) == ZNorm(Z(BAdd(x.p, y.n), BAdd(x.n, y.p)))
ZMulSmall(x, k) == Z(BMulSmall(x.p, k), BMulSmall(x.n, k))
ZMulB(x, b) == Z(BMul(x.p, b), BMul(x.n, b))

Tup(f) == SubSeq(f, 1, Len(f))

RECURSIVE PowersIter(_, _, _)
PowersIter(k, n, acc) == IF Len(acc) >= n THEN acc
                         ELSE PowersIter(k, n, Append(acc, BMulSmall(acc[Len(acc)], k)))
\* <<k^0, k^1, ..., k^(n-1)>>
Powers(k, n) == IF n = 0 THEN <<>> ELSE PowersIter(k, n, << <<1>> >>)
Scaled(z, base) == [z |-> Tup(z), base |-> base]
OfPrices(series) == Scaled([i \in 1..Len(series) |-> ZOfInt(series[i])], 1)
ToFloats(X) == LET pw == Powers(X.base, Len(X.z))
               IN  Tup([i \in 1..Len(X.z) |-> Q(X.z[i].p, X.z[i].n, pw[i])])

RECURSIVE EwmRecIter(_, _, _, _, _, _)
\* acc holds rows 1..i-1 of the result; pw = (span+1)^(i-2) when i >= 2.
\* y[0] = x[0]; y[t] = (1 - alpha) * y[t-1] + alpha * x[t], alpha = 2/(span+1):
\* with x[t] = X[t]/S^t and y[t] = V[t]/(S*(span+1))^t this is
\* V[t] = 2 * (span+1)^(t-1) * X[t] + (span-1) * S * V[t-1].
EwmRecIter(X, S, span, i, pw, acc) ==
    IF i > Len(X) THEN acc
    ELSE LET v == IF i = 1 THEN X[1]
                  ELSE ZAdd(ZMulB(X[i], BMulSmall(pw, 2)),
                            ZMulSmall(acc[i - 1], (span - 1) * S))
         IN  EwmRecIter(X, S, span, i + 1,
                        IF i = 1 THEN <<1>> ELSE BMulSmall(pw, span + 1),
                        Append(acc, v))

\* series.ewm(span=span, adjust=False).mean()
EwmRec(X, span) == Scaled(EwmRecIter(X.z, X.base, span, 1, <<1>>, <<>>), X.base * (span + 1))

\* X - Y, row by row
SubScaled(X, Y) ==
    LET px == Powers(X.base, Len(X.z))
        py == Powers(Y.base, Len(X.z))
    IN  Scaled([i \in 1..Len(X.z) |-> ZSub(ZMulB(X.z[i], py[i]), ZMulB(Y.z[i], px[i]))],
               X.base * Y.base)

RECURSIVE EwmAdjIter(_, _, _, _, _, _, _)
\* acc holds rows 1..i-1; num/den are the weighted sum and the weight sum of
\* row i-1 scaled by (span+1)^(i-2); pw = (span+1)^(i-2).
\* weighted[t] = (sum_k (1-alpha)^k x[t-k]) / (sum_k (1-alpha)^k)
EwmAdjIter(series, span, i, num, den, pw, acc) ==
    IF i > Len(series) THEN acc
    ELSE LET pw2 == IF i = 1 THEN <<1>> ELSE BMulSmall(pw, span + 1)
             n2  == BAdd(BMulSmall(pw2, series[i]), BMulSmall(num, span - 1))
             d2  == BAdd(pw2, BMulSmall(den, span - 1))
         IN  EwmAdjIter(series, span, i + 1, n2, d2, pw2, Append(acc, Q(n2, <<>>, d2)))

\* series.ewm(span=span).mean()   (adjust=True, the pandas default)
EwmAdj(series, span) == EwmAdjIter(series, span, 1, <<>>, <<>>, <<1>>, <<>>)

RECURSIVE FSum(_, _, _)
FSum(col, lo, hi) == IF lo > hi THEN Num(0) ELSE FAdd(col[lo], FSum(col, lo + 1, hi))

\* col.rolling(window=window).mean(): NaN until window non-NaN values are in the window
RollingMean(col, window) ==
    Tup([i \in 1..Len(col) |->
        IF i < window \/ \E j \in (i - window + 1)..i : col[j] = NaN THEN NaN
        ELSE FDiv(FSum(col, i - window + 1, i), Num(window))])

\* series.diff()
Diff(series) == Tup([i \in 1..Len(series) |-> IF i = 1 THEN NaN ELSE Num(series[i] - series[i - 1])])
ClipLower0(col) == Tup([i \in 1..Len(col) |-> IF col[i] = NaN THEN NaN
                                           ELSE IF QSign(col[i]) < 0 THEN Num(0) ELSE col[i]])
ClipUpper0(col) == Tup([i \in 1..Len(col) |-> IF col[i] = NaN THEN NaN
                                           ELSE IF QSign(col[i]) > 0 THEN Num(0) ELSE col[i]])
Negate(col) == Tup([i \in 1..Len(col) |-> IF col[i] = NaN THEN NaN ELSE FNeg(col[i])])

RsiPeriod == 14

compute_rsi(series) ==
    LET delta    == Diff(series)
        gain     == ClipLower0(delta)
        loss     == Negate(ClipUpper0(delta))
        avg_gain == RollingMean(gain, RsiPeriod)
        avg_loss == RollingMean(loss, RsiPeriod)
        rs       == Tup([i \in 1..Len(series) |-> FDiv(avg_gain[i], avg_loss[i])])
    IN  Tup([i \in 1..Len(series) |->
            FSub(Num(100), FDiv(Num(100), FAdd(Num(1), rs[i])))])

MacdFast == 12
MacdSlow == 26
MacdSignal == 9

compute_macd(series) ==
    LET exp1   == EwmRec(OfPrices(series), MacdFast)
        exp2   == EwmRec(OfPrices(series), MacdSlow)
        macd   == SubScaled(exp1, exp2)
        signal == EwmRec(macd, MacdSignal)
    IN  [macd |-> ToFloats(macd), signal |-> ToFloats(signal)]

EmaSpan == 20
SmaWindow == 10

\* variant: the EMA runs over the bars newest first
calculate_indicatorsNewestFirst(series) ==
    LET m == compute_macd(series)
        rev(q) == Tup([i \in 1..Len(q) |-> q[Len(q) + 1 - i]])
    IN  [Close  |-> Tup([i \in 1..Len(series) |-> Num(series[i])]),
         EMA    |-> rev(EwmAdj(rev(series), EmaSpan)),
         SMA    |-> RollingMean([i \in 1..Len(series) |-> Num(series[i])], SmaWindow),
         RSI    |-> compute_rsi(series),
         MACD   |-> m.macd,
         Signal |-> m.signal]

\* the frame: one column per name, all of the length of the price series
calculate_indicators(series) ==
    LET m == compute_macd(series)
    IN  [Close  |-> Tup([i \in 1..Len(series) |-> Num(series[i])]),
         EMA    |-> EwmAdj(series, EmaSpan),
         SMA    |-> RollingMean([i \in 1..Len(series) |-> Num(series[i])], SmaWindow),
         RSI    |-> compute_rsi(series),
         MACD   |-> m.macd,
         Signal |-> m.signal]

Columns == <<"RSI", "MACD", "Signal", "EMA", "SMA", "Close">>
Indicators == {"RSI", "MACD", "EMA", "SMA"}
FrameLen(frame) == Len(frame.Close)

\* variant: no row is dropped
CleanRowsKeepAll(frame, i) == [j \in 1..i |-> j]

\* df.dropna(subset=[...]) as the ascending list of the kept row numbers
RECURSIVE CleanRows(_, _)
CleanRows(frame, i) ==
    IF i = 0 THEN <<>>
    ELSE LET rest == CleanRows(frame, i - 1)
         IN  IF \A c \in 1..Len(Columns) : frame[Columns[c]][i] # NaN
             THEN Append(rest, i) ELSE rest

\* variant: the last row is classified whether or not it is fully defined
get_signalsLastRow(frame) ==
    IF FrameLen(frame) = 0
    THEN [RSI |-> "HOLD", MACD |-> "HOLD", EMA |-> "HOLD", SMA |-> "HOLD"]
    ELSE LET latest == FrameLen(frame)
             row(c) == frame[c][latest]
         IN  [RSI  |-> IF Lt(row("RSI"), Num(30)) THEN "BUY"
                       ELSE IF Gt(row("RSI"), Num(70)) THEN "SELL" ELSE "HOLD",
              MACD |-> IF Gt(row("MACD"), row("Signal")) THEN "BUY"
                       ELSE IF Lt(row("MACD"), row("Signal")) THEN "SELL" ELSE "HOLD",
              EMA  |-> IF Gt(row("Close"), row("EMA")) THEN "BUY" ELSE "SELL",
              SMA  |-> IF Gt(row("Close"), row("SMA")) THEN "BUY" ELSE "SELL"]

\* variant: Close equal to the average counts as BUY
get_signalsGe(frame) ==
    LET df_clean == CleanRows(frame, FrameLen(frame))
    IN  IF df_clean = <<>>
        THEN [RSI |-> "HOLD", MACD |-> "HOLD", EMA |-> "HOLD", SMA |-> "HOLD"]
        ELSE LET latest == df_clean[Len(df_clean)]
                 row(c) == frame[c][latest]
             IN  [RSI  |-> IF Lt(row("RSI"), Num(30)) THEN "BUY"
                           ELSE IF Gt(row("RSI"), Num(70)) THEN "SELL" ELSE "HOLD",
                  MACD |-> IF Gt(row("MACD"), row("Signal")) THEN "BUY"
                           ELSE IF Lt(row("MACD"), row("Signal")) THEN "SELL" ELSE "HOLD",
                  EMA  |-> IF ~Lt(row("Close"), row("EMA")) THEN "BUY" ELSE "SELL",
                  SMA  |-> IF ~Lt(row("Close"), row("SMA")) THEN "BUY" ELSE "SELL"]

get_signals(frame) ==
    LET df_clean == CleanRows(frame, FrameLen(frame))
    IN  IF df_clean = <<>>
        THEN [RSI |-> "HOLD", MACD |-> "HOLD", EMA |-> "HOLD", SMA |-> "HOLD"]
        ELSE LET latest == df_clean[Len(df_clean)]
                 row(c) == frame[c][latest]
             IN  [RSI  |-> IF Lt(row("RSI"), Num(30)) THEN "BUY"
                           ELSE IF Gt(row("RSI"), Num(70)) THEN "SELL" ELSE "HOLD",
                  MACD |-> IF Gt(row("MACD"), row("Signal")) THEN "BUY"
                           ELSE IF Lt(row("MACD"), row("Signal")) THEN "SELL" ELSE "HOLD",
                  EMA  |-> IF Gt(row("Close"), row("EMA")) THEN "BUY" ELSE "SELL",
                  SMA  |-> IF Gt(row("Close"), row("SMA")) THEN "BUY" ELSE "SELL"]

\* sum(1 for v in signals.values() if v == "BUY")
BuyCount(sigs) == Cardinality({k \in Indicators : sigs[k] = "BUY"})

\* variant: a strict threshold for BUY
OverallStrict(buy_count) == IF buy_count > 3 THEN "BUY"
                            ELSE IF buy_count <= 1 THEN "SELL" ELSE "HOLD"

\* variant: no BUY at all reads as HOLD
OverallZeroHold(buy_count) == IF buy_count >= 3 THEN "BUY"
                              ELSE IF buy_count = 1 THEN "SELL" ELSE "HOLD"

\* "BUY" if buy_count >= 3 else "SELL" if buy_count <= 1 else "HOLD"
Overall(buy_count) == IF buy_count >= 3 THEN "BUY"
                      ELSE IF buy_count <= 1 THEN "SELL" ELSE "HOLD"

-----------------------------------------------------------------------------
(* The fetch.  get_alpha_vantage_data returns None (request or payload     *)
(* error), an empty frame (a payload with an empty time series) or a frame *)
(* of bars in ascending time order; only the Close column is used later.   *)

NoneDf == [ok |-> FALSE, close |-> <<>>]
Df(series) == [ok |-> TRUE, close |-> series]

\* the price series the remote API answers with
ShortSeries  == <<20, 21, 22>>
FlatSeries   == [i \in 1..15 |-> 20]
RisingSeries == [i \in 1..21 |-> 9 + i]
MixedSeries  == <<20, 21, 19, 17, 17, 18, 18, 19, 18, 18, 16, 16, 18, 17, 19>>
SeriesPool == {ShortSeries, FlatSeries, RisingSeries, MixedSeries}
LoadFeed == {ShortSeries, RisingSeries}
ScanFeed == {FlatSeries, MixedSeries, RisingSeries}

\* df is None or df.empty
IsNoneOrEmpty(r) == ~r.ok \/ r.close = <<>>

\* get_signals(calculate_indicators(df)), tabulated once for the series of the pool
\* rows: the row numbers dropna keeps
PoolTable == {LET frame == calculate_indicators(series)
              IN  [series |-> series, signals |-> get_signals(frame),
                   rows |-> CleanRows(frame, FrameLen(frame))] :
                 series \in SeriesPool}
PoolSignals(series) == (CHOOSE e \in PoolTable : e.series = series).signals

-----------------------------------------------------------------------------
VARIABLES
    api,        \* the price series the remote API may answer a load and a scan with
    close,      \* classification runs: the close prices of the fetched frame
    raw,        \* classification runs: the frame handed to get_signals, as integers
    df,         \* classification runs: the indicator frame
    signals,    \* classification runs: the SignalSet returned by get_signals
    overall,    \* classification runs: the overall recommendation
    stage,      \* classification runs: "build", "frame", "done"; "app" otherwise
    loads,      \* the update_stock_data worker threads, in start order
    scan,       \* the scan_market worker thread
    queue,      \* queued signal emissions waiting for the GUI thread
    ui,         \* the widgets: labels, recommendation_label, scan_results, chart
    shown,      \* history: which thread's emission each widget shows (0: none)
    lastEmit    \* history: which thread emitted last for each widget (0: none)

pureVars == <<close, raw, df, signals, overall, stage>>
appVars  == <<api, loads, scan, queue, ui, shown, lastEmit>>
vars == <<close, raw, df, signals, overall, stage,
          api, loads, scan, queue, ui, shown, lastEmit>>

NoSignals == [RSI |-> "", MACD |-> "", EMA |-> "", SMA |-> ""]
EmptyFrame == [Close |-> <<>>, EMA |-> <<>>, SMA |-> <<>>, RSI |-> <<>>,
               MACD |-> <<>>, Signal |-> <<>>]

\* bounds
MaxLoads == 2
MaxChanges == 1

tickers == <<"AAPL", "GOOG", "MSFT", "AMZN", "META", "TSLA", "NVDA", "JPM", "NFLX", "BRK-B">>
SleepSeconds == 15

\* self.ticker_input.text().strip().upper() for the texts the user types
StripUpper == [t \in {"", "  ", " zzzz", "ZZZZ"} |->
                  IF t \in {"", "  "} THEN "" ELSE "ZZZZ"]

Event(sig, sigs, text, series, src) ==
    [sig |-> sig, signals |-> sigs, text |-> text, close |-> series, src |-> src]

\* emitted: history of the thread's emissions
NewLoad(symbol) == [symbol |-> symbol, pc |-> "fetch", df |-> NoneDf,
                    signals |-> NoSignals, buy_count |-> 0, emitted |-> <<>>]

\* the widgets after __init__
InitUi == [labels |-> [RSI |-> "Loading...", MACD |-> "Loading...",
                       EMA |-> "Loading...", SMA |-> "Loading..."],
           recommendation_label |-> "Loading...",
           scan_results |-> "",
           chart |-> <<>>]

\* slept: the time spent in time.sleep so far; asked: the symbols requested;
\* reqAt: the value of slept at each request; fetched: what each request
\* returned; emitted: the reports emitted
InitScan == [pc |-> "idle", i |-> 1, matches |-> <<>>, slept |-> 0, asked |-> <<>>,
             reqAt |-> <<>>, fetched |-> <<>>, emitted |-> <<>>]

\* lines 16-42: None, an empty frame, or the frame of one of the series
get_alpha_vantage_data(feed) == {NoneDf, Df(<<>>)} \cup {Df(series) : series \in feed}

InitApp(loadFeed, scanFeed) ==
    /\ api = [load |-> loadFeed, scan |-> scanFeed]
    /\ loads = <<NewLoad("AAPL")>>
    /\ scan = InitScan
    /\ queue = <<>>
    /\ ui = InitUi
    /\ shown = [labels |-> 0, overall |-> 0, chart |-> 0]
    /\ lastEmit = [labels |-> 0, overall |-> 0, chart |-> 0]

IdlePure ==
    /\ close = <<>>
    /\ raw = <<>>
    /\ df = EmptyFrame
    /\ signals = NoSignals
    /\ overall = ""
    /\ stage = "app"

\* which widgets the slot connected to a signal writes
Writes(sig) == CASE sig = "update_labels" -> {"labels"}
                 [] sig = "update_overall" -> {"overall"}
                 [] sig = "update_chart" -> {"chart"}
                 [] sig = "error" -> {"labels", "overall"}
                 [] OTHER -> {}

Stamp(h, e) == [labels  |-> IF "labels" \in Writes(e.sig) THEN e.src ELSE h.labels,
                overall |-> IF "overall" \in Writes(e.sig) THEN e.src ELSE h.overall,
                chart   |-> IF "chart" \in Writes(e.sig) THEN e.src ELSE h.chart]

\* signal.emit(...) from a worker thread: a queued call of the connected slot
Emit(e) == /\ queue' = Append(queue, e)
           /\ lastEmit' = Stamp(lastEmit, e)

SetLoad(l, r) == loads' = [loads EXCEPT ![l] = r]

\* lines 169-176: the fetch and the thread-local computation
LoadFetch(l) ==
    /\ loads[l].pc = "fetch"
    /\ \E r \in get_alpha_vantage_data(api.load) :
          IF IsNoneOrEmpty(r)
          THEN SetLoad(l, [loads[l] EXCEPT !.df = r, !.pc = "emit_error"])
          ELSE LET sigs == PoolSignals(r.close)
               IN  SetLoad(l, [loads[l] EXCEPT !.df = r, !.signals = sigs,
                                               !.buy_count = BuyCount(sigs),
                                               !.pc = "emit_labels"])
    /\ UNCHANGED <<api, scan, queue, ui, shown, lastEmit>>

\* variant: no return after the error emission
LoadEmitErrorNoReturn(l) ==
    /\ loads[l].pc = "emit_error"
    /\ Emit(Event("error", NoSignals, "", <<>>, l))
    /\ SetLoad(l, [loads[l] EXCEPT !.pc = "emit_labels",
                                    !.emitted = Append(@, Event("error", NoSignals, "", <<>>, l))])
    /\ UNCHANGED <<api, scan, ui, shown>>

\* lines 171-172
LoadEmitError(l) ==
    /\ loads[l].pc = "emit_error"
    /\ Emit(Event("error", NoSignals, "", <<>>, l))
    /\ SetLoad(l, [loads[l] EXCEPT !.pc = "return",
                                    !.emitted = Append(@, Event("error", NoSignals, "", <<>>, l))])
    /\ UNCHANGED <<api, scan, ui, shown>>

\* line 178
LoadEmitLabels(l) ==
    /\ loads[l].pc = "emit_labels"
    /\ Emit(Event("update_labels", loads[l].signals, "", <<>>, l))
    /\ SetLoad(l, [loads[l] EXCEPT !.pc = "emit_overall",
                                    !.emitted = Append(@, Event("update_labels", loads[l].signals, "", <<>>, l))])
    /\ UNCHANGED <<api, scan, ui, shown>>

\* lines 180-181
LoadEmitOverall(l) ==
    /\ loads[l].pc = "emit_overall"
    /\ Emit(Event("update_overall", NoSignals, Overall(loads[l].buy_count), <<>>, l))
    /\ SetLoad(l, [loads[l] EXCEPT !.pc = "emit_chart",
                                    !.emitted = Append(@, Event("update_overall", NoSignals, Overall(loads[l].buy_count), <<>>, l))])
    /\ UNCHANGED <<api, scan, ui, shown>>

\* line 182
LoadEmitChart(l) ==
    /\ loads[l].pc = "emit_chart"
    /\ Emit(Event("update_chart", NoSignals, "", loads[l].df.close, l))
    /\ SetLoad(l, [loads[l] EXCEPT !.pc = "return",
                                    !.emitted = Append(@, Event("update_chart", NoSignals, "", loads[l].df.close, l))])
    /\ UNCHANGED <<api, scan, ui, shown>>

\* update_stock_data returns and its thread ends
LoadReturn(l) ==
    /\ loads[l].pc = "return"
    /\ SetLoad(l, [loads[l] EXCEPT !.pc = "done"])
    /\ UNCHANGED <<api, scan, queue, ui, shown, lastEmit>>

\* lines 184-188, on the GUI thread
on_load_stock(text) ==
    /\ Len(loads) < MaxLoads
    /\ LET symbol == StripUpper[text]
       IN  IF symbol # ""
           THEN /\ ui' = [ui EXCEPT !.scan_results = ""]
                /\ loads' = Append(loads, NewLoad(symbol))
           ELSE UNCHANGED <<ui, loads>>
    /\ UNCHANGED <<api, scan, queue, shown, lastEmit>>

\* the slots, lines 148-166 and 211-224
update_labels_ui(w, sigs) ==
    [w EXCEPT !.labels = [RSI |-> sigs.RSI, MACD |-> sigs.MACD,
                          EMA |-> sigs.EMA, SMA |-> sigs.SMA]]
update_overall_ui(w, text) == [w EXCEPT !.recommendation_label = text]
update_scan_results_ui(w, text) == [w EXCEPT !.scan_results = text]
update_chart_ui(w, series) == [w EXCEPT !.chart = series]
set_labels_error(w) ==
    [w EXCEPT !.labels = [RSI |-> "Error loading data", MACD |-> "Error loading data",
                          EMA |-> "Error loading data", SMA |-> "Error loading data"],
              !.recommendation_label = "Error"]

\* variant: the GUI thread runs the slot of the newest queued emission
DeliverNewestFirst ==
    /\ queue # <<>>
    /\ LET e == queue[Len(queue)]
       IN  /\ ui' = CASE e.sig = "update_labels" -> update_labels_ui(ui, e.signals)
                      [] e.sig = "update_overall" -> update_overall_ui(ui, e.text)
                      [] e.sig = "update_scan_results" -> update_scan_results_ui(ui, e.text)
                      [] e.sig = "update_chart" -> update_chart_ui(ui, e.close)
                      [] e.sig = "error" -> set_labels_error(ui)
           /\ shown' = Stamp(shown, e)
    /\ queue' = SubSeq(queue, 1, Len(queue) - 1)
    /\ UNCHANGED <<api, loads, scan, lastEmit>>

\* the GUI thread runs the slot of the oldest queued emission
Deliver ==
    /\ queue # <<>>
    /\ LET e == Head(queue)
       IN  /\ ui' = CASE e.sig = "update_labels" -> update_labels_ui(ui, e.signals)
                      [] e.sig = "update_overall" -> update_overall_ui(ui, e.text)
                      [] e.sig = "update_scan_results" -> update_scan_results_ui(ui, e.text)
                      [] e.sig = "update_chart" -> update_chart_ui(ui, e.close)
                      [] e.sig = "error" -> set_labels_error(ui)
           /\ shown' = Stamp(shown, e)
    /\ queue' = Tail(queue)
    /\ UNCHANGED <<api, loads, scan, lastEmit>>

\* lines 190-192, on the GUI thread
start_scan ==
    /\ scan.pc = "idle"
    /\ ui' = [ui EXCEPT !.scan_results = "Scanning...\n"]
    /\ scan' = [scan EXCEPT !.pc = "loop"]
    /\ UNCHANGED <<api, loads, queue, shown, lastEmit>>

RECURSIVE Changes(_)
\* how often the answer of the API differs from its answer to the previous request
Changes(rs) == IF Len(rs) < 2 THEN 0
               ELSE Changes(Tail(rs)) + (IF rs[1] # rs[2] THEN 1 ELSE 0)

MatchLine(symbol, buy_count) == symbol \o ": " \o ToString(buy_count) \o "/4 indicators say BUY"

\* variant: a failed fetch leaves the loop
ScanIterationBreak ==
    /\ scan.pc = "loop"
    /\ scan.i <= Len(tickers)
    /\ \E r \in get_alpha_vantage_data(api.scan) :
          /\ Changes(Append(scan.fetched, r)) <= MaxChanges
          /\ LET symbol == tickers[scan.i]
                 asked  == [scan EXCEPT !.asked = Append(@, symbol),
                                        !.reqAt = Append(@, scan.slept),
                                        !.fetched = Append(@, r),
                                        !.i = @ + 1]
             IN  IF IsNoneOrEmpty(r)
                 THEN scan' = [asked EXCEPT !.i = Len(tickers) + 1]
                 ELSE LET sigs == PoolSignals(r.close)
                          buy_count == BuyCount(sigs)
                      IN  scan' = [asked EXCEPT
                                     !.matches = IF buy_count >= 3
                                                 THEN Append(@, MatchLine(symbol, buy_count))
                                                 ELSE @,
                                     !.slept = @ + SleepSeconds]
    /\ UNCHANGED <<api, loads, queue, ui, shown, lastEmit>>

\* lines 197-206: one pass of the loop body for tickers[scan.i]
ScanIteration ==
    /\ scan.pc = "loop"
    /\ scan.i <= Len(tickers)
    /\ \E r \in get_alpha_vantage_data(api.scan) :
          /\ Changes(Append(scan.fetched, r)) <= MaxChanges
          /\ LET symbol == tickers[scan.i]
                 asked  == [scan EXCEPT !.asked = Append(@, symbol),
                                        !.reqAt = Append(@, scan.slept),
                                        !.fetched = Append(@, r),
                                        !.i = @ + 1]
             IN  IF IsNoneOrEmpty(r)
                 THEN scan' = asked
                 ELSE LET sigs == PoolSignals(r.close)
                          buy_count == BuyCount(sigs)
                      IN  scan' = [asked EXCEPT
                                     !.matches = IF buy_count >= 3
                                                 THEN Append(@, MatchLine(symbol, buy_count))
                                                 ELSE @,
                                     !.slept = @ + SleepSeconds]
    /\ UNCHANGED <<api, loads, queue, ui, shown, lastEmit>>

RECURSIVE Join(_, _)
\* sep.join(lines)
Join(sep, lines) == IF lines = <<>> THEN ""
                    ELSE IF Len(lines) = 1 THEN lines[1]
                    ELSE lines[1] \o sep \o Join(sep, Tail(lines))

NoMatchText == "No strong BUY signals found."

\* lines 208-209
ScanEmit ==
    /\ scan.pc = "loop"
    /\ scan.i > Len(tickers)
    /\ LET result == IF scan.matches # <<>> THEN Join("\n", scan.matches) ELSE NoMatchText
       IN  /\ Emit(Event("update_scan_results", NoSignals, result, <<>>, 0))
           /\ scan' = [scan EXCEPT !.pc = "done", !.emitted = Append(@, result)]
    /\ UNCHANGED <<api, loads, ui, shown>>

LoadStep == \E l \in 1..Len(loads) :
               \/ LoadFetch(l)
               \/ LoadEmitError(l)
               \/ LoadEmitLabels(l)
               \/ LoadEmitOverall(l)
               \/ LoadEmitChart(l)
               \/ LoadReturn(l)

Init == InitApp(LoadFeed, {}) /\ IdlePure

Next == /\ \/ \E text \in DOMAIN StripUpper : on_load_stock(text)
           \/ LoadStep
           \/ Deliver
        /\ UNCHANGED pureVars

Spec == Init /\ [][Next]_vars

NextScan == /\ \/ start_scan
               \/ ScanIteration
               \/ ScanEmit
               \/ LoadStep
               \/ Deliver
            /\ UNCHANGED pureVars

InitScanRun == InitApp(LoadFeed, ScanFeed) /\ IdlePure

SpecScan == InitScanRun /\ [][NextScan]_vars

-----------------------------------------------------------------------------
(* Classification runs: the computation of update_stock_data (lines        *)
(* 174-180) applied to one frame, without the threads and the widgets.     *)

IdleApp == InitApp({}, {})

\* bounds of the classification runs: the bars of a frame, the changes of
\* step in it, its first price
Bars == 16
MaxTurns == 1
StartPrice == 25

\* line 174
CalculateIndicators ==
    /\ stage = "build"
    /\ Len(close) = Bars
    /\ df' = calculate_indicators(close)
    /\ stage' = "frame"
    /\ UNCHANGED <<close, raw, signals, overall>>

\* lines 175-180
Classify ==
    /\ stage = "frame"
    /\ signals' = get_signals(df)
    /\ overall' = Overall(BuyCount(signals'))
    /\ stage' = "done"
    /\ UNCHANGED <<close, raw, df>>

\* bounds of the price series
Deltas == {-1, 0, 1}
RisingDeltas == {1, 2, 5}

RECURSIVE Turns(_)
\* how often the step between consecutive prices changes
Turns(series) == IF Len(series) < 3 THEN 0
                 ELSE Turns(Tail(series))
                      + (IF series[2] - series[1] # series[3] - series[2] THEN 1 ELSE 0)

\* the API delivers one more bar
AppendBar(steps) ==
    /\ stage = "build"
    /\ Len(close) < Bars
    /\ \E d \in steps :
          /\ close[Len(close)] + d > 0
          /\ Turns(Append(close, close[Len(close)] + d)) <= MaxTurns
          /\ close' = Append(close, close[Len(close)] + d)
    /\ UNCHANGED <<raw, df, signals, overall, stage>>

InitSeries ==
    /\ close = <<StartPrice>>
    /\ raw = <<>>
    /\ df = EmptyFrame
    /\ signals = NoSignals
    /\ overall = ""
    /\ stage = "build"
    /\ IdleApp

NextSeries == /\ \/ AppendBar(Deltas)
                 \/ CalculateIndicators
                 \/ Classify
              /\ UNCHANGED appVars

NextRising == /\ \/ AppendBar(RisingDeltas)
                 \/ CalculateIndicators
                 \/ Classify
              /\ UNCHANGED appVars

SpecRising == InitSeries /\ [][NextRising]_vars

SpecSeries == InitSeries /\ [][NextSeries]_vars

(* Frames handed to get_signals directly: rows of small integers, NaNRaw   *)
(* for an undefined value.                                                 *)

MaxRows == 2
NaNRaw == 0 - 1000

Row(rsi, macd, sig, ema, sma, cl) ==
    [RSI |-> rsi, MACD |-> macd, Signal |-> sig, EMA |-> ema, SMA |-> sma, Close |-> cl]

DefinedRows == {Row(rsi, macd, sig, ema, sma, cl) :
                   rsi \in {29, 30, 70, 71}, macd \in {0, 1}, sig \in {0, 1},
                   ema \in {1, 2}, sma \in {1, 2}, cl \in {1, 2}}
AllBuyRow == Row(29, 1, 0, 1, 1, 2)
AllSellRow == Row(71, 0, 1, 2, 2, 1)
MaskedRows == {[r EXCEPT ![Columns[c]] = NaNRaw] :
                  r \in {AllBuyRow, AllSellRow}, c \in 1..Len(Columns)}
OlderRows == {AllBuyRow, AllSellRow} \cup MaskedRows
LatestRows == DefinedRows \cup MaskedRows

RECURSIVE SeqsUpTo(_, _)
\* the sequences over S of length at most n
SeqsUpTo(S, n) == IF n = 0 THEN {<<>>}
                  ELSE LET shorter == SeqsUpTo(S, n - 1)
                       IN  shorter \cup {Append(q, e) : q \in shorter, e \in S}

RawFrames == {Append(older, latest) : older \in SeqsUpTo(OlderRows, MaxRows - 1),
                                      latest \in LatestRows}

Lift(v) == IF v = NaNRaw THEN NaN ELSE Num(v)
LiftFrame(rows) ==
    [Close  |-> Tup([i \in 1..Len(rows) |-> Lift(rows[i].Close)]),
     EMA    |-> Tup([i \in 1..Len(rows) |-> Lift(rows[i].EMA)]),
     SMA    |-> Tup([i \in 1..Len(rows) |-> Lift(rows[i].SMA)]),
     RSI    |-> Tup([i \in 1..Len(rows) |-> Lift(rows[i].RSI)]),
     MACD   |-> Tup([i \in 1..Len(rows) |-> Lift(rows[i].MACD)]),
     Signal |-> Tup([i \in 1..Len(rows) |-> Lift(rows[i].Signal)])]

InitSignals ==
    /\ raw \in RawFrames
    /\ close = <<>>
    /\ df = LiftFrame(raw)
    /\ signals = NoSignals
    /\ overall = ""
    /\ stage = "frame"
    /\ IdleApp

NextSignals == Classify /\ UNCHANGED appVars

SpecSignals == InitSignals /\ [][NextSignals]_vars


-----------------------------------------------------------------------------
(* Properties.                                                             *)

Count(b) == IF b THEN 1 ELSE 0
Buys(sigs) == Count(sigs.RSI = "BUY") + Count(sigs.MACD = "BUY")
              + Count(sigs.EMA = "BUY") + Count(sigs.SMA = "BUY")
AllHold == [RSI |-> "HOLD", MACD |-> "HOLD", EMA |-> "HOLD", SMA |-> "HOLD"]
Range(q) == {q[i] : i \in 1..Len(q)}

\* C1: the overall recommendation is BUY exactly when at least three of the
\* four signals are BUY, SELL exactly when at most one is, and HOLD exactly
\* when two are.
C1_OverallByBuyCount ==
    stage = "done" =>
        /\ (overall = "BUY")  <=> (Buys(signals) >= 3)
        /\ (overall = "SELL") <=> (Buys(signals) <= 1)
        /\ (overall = "HOLD") <=> (Buys(signals) = 2)

C1_Witness == stage = "done" /\ Buys(signals) = 2 /\ overall = "HOLD"

IsDefinedRow(r) == \A c \in 1..Len(Columns) : r[Columns[c]] # NaNRaw
HasDefinedRow(rows) == \E i \in 1..Len(rows) : IsDefinedRow(rows[i])
LatestDefined(rows) == CHOOSE i \in 1..Len(rows) :
                          /\ IsDefinedRow(rows[i])
                          /\ \A j \in (i + 1)..Len(rows) : ~IsDefinedRow(rows[j])
RowSignals(r) ==
    [RSI  |-> IF r.RSI < 30 THEN "BUY" ELSE IF r.RSI > 70 THEN "SELL" ELSE "HOLD",
     MACD |-> IF r.MACD > r.Signal THEN "BUY"
              ELSE IF r.MACD < r.Signal THEN "SELL" ELSE "HOLD",
     EMA  |-> IF r.Close > r.EMA THEN "BUY" ELSE "SELL",
     SMA  |-> IF r.Close > r.SMA THEN "BUY" ELSE "SELL"]

\* C2: get_signals classifies the most recent row in which all six values are
\* defined, whatever the rows after it hold, and returns HOLD four times when
\* no row is fully defined.
C2_LatestDefinedRow ==
    stage = "done" /\ raw # <<>> =>
        IF HasDefinedRow(raw) THEN signals = RowSignals(raw[LatestDefined(raw)])
        ELSE signals = AllHold

C2_Witness ==
    /\ stage = "done"
    /\ Len(raw) = 2
    /\ raw[1] = AllSellRow
    /\ ~IsDefinedRow(raw[2])
    /\ raw[2].Close = AllBuyRow.Close
    /\ signals.EMA = "SELL"

\* C3: on a fully defined latest row the RSI signal is BUY below 30, SELL above
\* 70 and HOLD between; the MACD signal is BUY above the signal line, SELL
\* below it and HOLD on it; the EMA and SMA signals are BUY when Close is
\* above them and SELL otherwise, equality included, and never HOLD.
C3_RowRules ==
    stage = "done" /\ raw # <<>> /\ IsDefinedRow(raw[Len(raw)]) =>
        LET r == raw[Len(raw)]
        IN  /\ (signals.RSI = "BUY")  <=> (r.RSI < 30)
            /\ (signals.RSI = "SELL") <=> (r.RSI > 70)
            /\ (signals.RSI = "HOLD") <=> (r.RSI >= 30 /\ r.RSI <= 70)
            /\ (signals.MACD = "BUY")  <=> (r.MACD > r.Signal)
            /\ (signals.MACD = "SELL") <=> (r.MACD < r.Signal)
            /\ (signals.MACD = "HOLD") <=> (r.MACD = r.Signal)
            /\ (signals.EMA = "BUY")  <=> (r.Close > r.EMA)
            /\ (signals.EMA = "SELL") <=> (r.Close <= r.EMA)
            /\ (signals.SMA = "BUY")  <=> (r.Close > r.SMA)
            /\ (signals.SMA = "SELL") <=> (r.Close <= r.SMA)

C3_Witness ==
    /\ stage = "done"
    /\ IsDefinedRow(raw[Len(raw)])
    /\ raw[Len(raw)].Close = raw[Len(raw)].EMA
    /\ raw[Len(raw)].RSI = 30
    /\ signals.EMA = "SELL"
    /\ signals.RSI = "HOLD"

\* the last RsiPeriod differences of the series are all zero
FlatTail(prices) ==
    /\ Len(prices) >= RsiPeriod + 1
    /\ \A i \in (Len(prices) - RsiPeriod + 1)..Len(prices) : prices[i] = prices[i - 1]
IsCleanRow(frame, i) == \A c \in 1..Len(Columns) : frame[Columns[c]][i] # NaN
HasCleanRow(frame) == \E i \in 1..FrameLen(frame) : IsCleanRow(frame, i)
LatestClean(frame) == CHOOSE i \in 1..FrameLen(frame) :
                         /\ IsCleanRow(frame, i)
                         /\ \A j \in (i + 1)..FrameLen(frame) : ~IsCleanRow(frame, j)
RsiRule(v) == IF Lt(v, Num(30)) THEN "BUY" ELSE IF Gt(v, Num(70)) THEN "SELL" ELSE "HOLD"

\* C7 (as the specification states it): for every series whose RSI is
\* undefined at the latest bar because the bars before it are flat, the RSI
\* signal is HOLD.
C7_FlatTailHold ==
    stage = "done" /\ FlatTail(close) => signals.RSI = "HOLD"

\* C7 (amended): when the last RsiPeriod differences are zero the RSI of the
\* latest bar is undefined and that bar is dropped; the RSI signal is HOLD when
\* no earlier bar is fully defined, as for an all-constant series, and
\* otherwise it is the classification of the RSI of the most recent fully
\* defined bar, which need not be HOLD.
C7_FlatTailStaleRow ==
    stage = "done" /\ FlatTail(close) =>
        /\ df.RSI[Len(close)] = NaN
        /\ (\A i \in 2..Len(close) : close[i] = close[1]) => ~HasCleanRow(df)
        /\ IF HasCleanRow(df)
           THEN /\ LatestClean(df) < Len(close)
                /\ signals.RSI = RsiRule(df.RSI[LatestClean(df)])
           ELSE signals.RSI = "HOLD"

C7_Witness ==
    /\ stage = "done"
    /\ FlatTail(close)
    /\ ~HasCleanRow(df)
    /\ Len(close) > RsiPeriod + 1
    /\ signals.RSI = "HOLD"

StrictlyIncreasing(prices) == \A i \in 2..Len(prices) : prices[i - 1] < prices[i]

\* C9: on a strictly increasing series of at least 15 bars the EMA(20) and the
\* SMA(10) are strictly below Close at every bar where all indicators are
\* defined, so the EMA and SMA signals are both BUY.
C9_RisingBelowClose ==
    stage = "done" /\ StrictlyIncreasing(close) /\ Len(close) >= RsiPeriod + 1 =>
        /\ \A i \in 1..Len(close) :
              IsCleanRow(df, i) => /\ Lt(df.EMA[i], df.Close[i])
                                   /\ Lt(df.SMA[i], df.Close[i])
        /\ signals.EMA = "BUY"
        /\ signals.SMA = "BUY"

C9_Witness ==
    /\ stage = "done"
    /\ StrictlyIncreasing(close)
    /\ Len(close) > RsiPeriod + 1
    /\ \E i \in 2..Len(close) : close[i] - close[i - 1] = 5
    /\ IsCleanRow(df, Len(close) - 1)
    /\ signals.EMA = "BUY"
    /\ signals.SMA = "BUY"

AllLoadsDone == \A l \in 1..Len(loads) : loads[l].pc = "done"
ErrorEvent(l) == Event("error", NoSignals, "", <<>>, l)

\* C5: a load whose fetch fails or returns an empty series emits exactly one
\* error event and no labels, overall or chart event.
C5_FailedLoadOnlyError ==
    \A l \in 1..Len(loads) :
        loads[l].pc # "fetch" /\ IsNoneOrEmpty(loads[l].df) =>
            /\ \A k \in 1..Len(loads[l].emitted) : loads[l].emitted[k] = ErrorEvent(l)
            /\ Len(loads[l].emitted) <= 1
            /\ loads[l].pc \in {"return", "done"} => loads[l].emitted = <<ErrorEvent(l)>>

C5_Witness ==
    \E l \in 1..Len(loads) :
        /\ loads[l].pc = "done"
        /\ loads[l].df = Df(<<>>)
        /\ loads[l].emitted = <<ErrorEvent(l)>>
        /\ queue = <<>>
        /\ ui.recommendation_label = "Error"

\* C8 (as the specification states it, in its weakest reading and for loads
\* whose fetches all succeed): once several loads have run and their events
\* are delivered, the labels, the overall recommendation and the chart all
\* come from one and the same load.
C8_OneLoadShown ==
    (/\ Len(loads) >= 2
     /\ AllLoadsDone
     /\ \A l \in 1..Len(loads) : ~IsNoneOrEmpty(loads[l].df)
     /\ queue = <<>>)
    => \E l \in 1..Len(loads) : shown.labels = l /\ shown.overall = l /\ shown.chart = l

LabelsOf(ld) == IF IsNoneOrEmpty(ld.df)
                THEN [RSI |-> "Error loading data", MACD |-> "Error loading data",
                      EMA |-> "Error loading data", SMA |-> "Error loading data"]
                ELSE ld.signals
OverallOf(ld) == IF IsNoneOrEmpty(ld.df) THEN "Error"
                 ELSE IF Buys(ld.signals) >= 3 THEN "BUY"
                 ELSE IF Buys(ld.signals) = 2 THEN "HOLD" ELSE "SELL"

\* C8 (amended): once all loads have finished and their events are delivered,
\* each presentation element shows what the event emitted last for that
\* element wrote: the labels and the overall recommendation those of the load
\* that emitted its labels, respectively its overall or error event, last, and
\* the chart that of the load that emitted a chart last.  The three may come
\* from different loads.
C8_LastEmissionPerWidget ==
    AllLoadsDone /\ queue = <<>> =>
        /\ shown = lastEmit
        /\ shown.labels # 0 /\ shown.overall # 0
        /\ ui.labels = LabelsOf(loads[shown.labels])
        /\ ui.recommendation_label = OverallOf(loads[shown.overall])
        /\ ui.chart = IF shown.chart = 0 THEN <<>> ELSE loads[shown.chart].df.close

C8_Witness ==
    /\ Len(loads) = 2
    /\ AllLoadsDone
    /\ queue = <<>>
    /\ loads[1].df = Df(ShortSeries)
    /\ loads[2].df = Df(RisingSeries)
    /\ shown = [labels |-> 2, overall |-> 1, chart |-> 1]
    /\ ui.labels.EMA = "BUY"
    /\ ui.recommendation_label = "SELL"
    /\ ui.chart = ShortSeries

Qualifies(r) == ~IsNoneOrEmpty(r) /\ Buys(PoolSignals(r.close)) >= 3
RECURSIVE ExpectedLines(_, _)
\* the report lines of the first n tickers, given what their requests returned
ExpectedLines(results, n) ==
    IF n = 0 THEN <<>>
    ELSE IF Qualifies(results[n])
         THEN Append(ExpectedLines(results, n - 1),
                     MatchLine(tickers[n], Buys(PoolSignals(results[n].close))))
         ELSE ExpectedLines(results, n - 1)
ExpectedReport(results) ==
    IF \E n \in 1..Len(results) : Qualifies(results[n])
    THEN Join("\n", ExpectedLines(results, Len(results)))
    ELSE NoMatchText

\* C4: a scan requests every ticker of the watch list in list order, a failed
\* or empty fetch skipping only that ticker, and emits exactly one report: one
\* line "<ticker>: <buyCount>/4 indicators say BUY" per ticker whose buy count
\* is at least 3, in list order, or the no-match sentence when there is none.
C4_ScanReport ==
    /\ scan.asked = SubSeq(tickers, 1, Len(scan.asked))
    /\ Len(scan.fetched) = Len(scan.asked)
    /\ scan.pc # "done" => scan.emitted = <<>>
    /\ scan.pc = "done" =>
          /\ scan.asked = tickers
          /\ scan.emitted = <<ExpectedReport(scan.fetched)>>
          /\ (\A k \in 1..Len(queue) : queue[k].sig # "update_scan_results")
                => ui.scan_results = ExpectedReport(scan.fetched)

C4_Witness ==
    /\ scan.pc = "done"
    /\ \A k \in 1..8 : scan.fetched[k] = NoneDf
    /\ scan.fetched[9] = Df(RisingSeries)
    /\ scan.fetched[10] = Df(RisingSeries)
    /\ ui.scan_results = "NFLX: 3/4 indicators say BUY\nBRK-B: 3/4 indicators say BUY"

\* C6 (as the specification states it): between every two consecutive fetch
\* requests of a scan the fixed delay elapses, whatever the outcome of the
\* earlier one.
C6_DelayBetweenRequests ==
    \A k \in 2..Len(scan.reqAt) : scan.reqAt[k] - scan.reqAt[k - 1] >= SleepSeconds

NoCleanRow(series) == (CHOOSE e \in PoolTable : e.series = series).rows = <<>>
TickerLines == Tup([k \in 1..Len(tickers) |-> {MatchLine(tickers[k], n) : n \in 0..4}])

\* C10: for a non-empty series with no fully defined row a load emits the
\* labels HOLD four times, then the overall recommendation SELL, then the
\* chart; a scan never reports the ticker of such a series.
C10_NoDefinedRow ==
    /\ \A l \in 1..Len(loads) :
          (/\ loads[l].pc = "done"
           /\ ~IsNoneOrEmpty(loads[l].df)
           /\ NoCleanRow(loads[l].df.close))
          => loads[l].emitted = <<Event("update_labels", AllHold, "", <<>>, l),
                                  Event("update_overall", NoSignals, "SELL", <<>>, l),
                                  Event("update_chart", NoSignals, "", loads[l].df.close, l)>>
    /\ \A k \in 1..Len(scan.fetched) :
          ~IsNoneOrEmpty(scan.fetched[k]) /\ NoCleanRow(scan.fetched[k].close)
          => /\ TickerLines[k] \cap Range(scan.matches) = {}
             /\ \A j \in 1..Len(scan.emitted) :
                   scan.emitted[j] \notin TickerLines[k]

C10_Witness ==
    /\ loads[1].pc = "done"
    /\ loads[1].df = Df(ShortSeries)
    /\ ui.recommendation_label = "SELL"
    /\ ui.chart = ShortSeries
    /\ scan.pc = "done"
    /\ scan.fetched[1] = Df(FlatSeries)
    /\ scan.fetched[10] = Df(RisingSeries)
    /\ scan.matches # <<>>

=============================================================================
